---- MODULE Spec2Model ----
(***************************************************************************)
(* The digital-wallet backend of src/main.py: the "user" and "transaction" *)
(* tables of the SQLite store, the six HTTP handlers, and the per-request   *)
(* sessions of the add-money handler.                                      *)
(*                                                                         *)
(* Balances and amounts are floats in the program; the model uses the      *)
(* integers, on which float addition is exact in the modelled range.       *)
(* Timestamps are readings of one non-decreasing clock (datetime.utcnow).  *)
(* An optional request field is <<>> when omitted and <<v>> when supplied. *)
(* Add-money requests are modelled with their required amount and          *)
(* description present; the description is discarded by the handler.       *)
(***************************************************************************)
EXTENDS Integers, Sequences, FiniteSets, TLC

VARIABLES
    users,          \* rows of table "user", in rowid order
    transactions,   \* rows of table "transaction"
    now,            \* the current reading of datetime.utcnow
    sessions,       \* the concurrent add-money requests, one ORM session each
    response,       \* the response of the request being served one at a time,
                    \* with the request it answers; NoResponse between requests
    ledger          \* history: per user, the balance it was stored with and the
                    \* sum of the amounts of its completed add-money requests

vars == <<users, transactions, now, sessions, response, ledger>>

----------------------------------------------------------------------------
\* Bounds of the model.
MaxUsers == 2
MaxTime == 1
MaxBalance == 1
MaxSessions == 2

\* Query(le=100) on read_users' limit, and its default.
LimitCap == 100
DefaultLimit == 100
DefaultOffset == 0
\* Field(default=0.0) of UserBase.balance / User.balance.
DefaultBalance == 0

None == <<>>
Some(x) == <<x>>

\* Python truthiness of an Optional[str]: None and "" are falsy.
Truthy(o) == o # None /\ o[1] # ""

\* `o or d` on an Optional[str] o.
OrElse(o, d) == IF Truthy(o) THEN o[1] ELSE d

Names == {"a", "b"}
Emails == {"a@x", "b@x"}
Phones == {"1", "2"}
UserIds == 1..(MaxUsers + 1)
Amounts == {-1, 0, 1}
Requests == 1..MaxSessions

Min(a, b) == IF a < b THEN a ELSE b

----------------------------------------------------------------------------
\* The storage layer.

\* Fault variant of UniqueOK: phone_number is indexed but not unique.
UniqueOK_NoPhone(tbl) ==
    \A i, j \in DOMAIN tbl :
        i # j => /\ tbl[i].username # tbl[j].username
                 /\ tbl[i].email # tbl[j].email

\* The unique indexes of table "user": username, email, phone_number.
UniqueOK(tbl) ==
    \A i, j \in DOMAIN tbl :
        i # j => /\ tbl[i].username # tbl[j].username
                 /\ tbl[i].email # tbl[j].email
                 /\ tbl[i].phone_number # tbl[j].phone_number

\* session.get(User, id) / select(User).where(User.id == id).first():
\* the row, or None.
SelectUser(tbl, uid) ==
    IF \E i \in DOMAIN tbl : tbl[i].id = uid
    THEN Some(tbl[CHOOSE i \in DOMAIN tbl : tbl[i].id = uid])
    ELSE None

\* The row of `tbl` with id row.id replaced by `row` (the UPDATE a commit
\* flushes for a loaded, modified object).
UpdateRow(tbl, row) ==
    [i \in DOMAIN tbl |-> IF tbl[i].id = row.id THEN row ELSE tbl[i]]

\* SQLite's SELECT ... LIMIT lim OFFSET off: a negative offset is 0, a
\* negative limit is no limit.
SelectPage(tbl, off, lim) ==
    LET o == IF off < 0 THEN 0 ELSE off
        n == IF Len(tbl) > o THEN Len(tbl) - o ELSE 0
        k == IF lim < 0 THEN n ELSE Min(lim, n)
    IN  SubSeq(tbl, o + 1, o + k)

\* A request that has not arrived yet.
IdleSession == [pc |-> "idle", user_id |-> 0, amount |-> 0, balance |-> 0,
                status |-> 0, new_balance |-> 0]

NoResponse == [op |-> "none", args |-> <<>>, status |-> 0, body |-> <<>>]

\* No request is being served.
Idle == response.op = "none"

Init ==
    /\ users = <<>>
    /\ transactions = <<>>
    /\ now = 0
    /\ sessions = [s \in Requests |-> IdleSession]
    /\ response = NoResponse
    /\ ledger = <<>>

\* Time passes between requests.
Tick ==
    /\ Idle
    /\ now < MaxTime
    /\ now' = now + 1
    /\ UNCHANGED <<users, transactions, sessions, response, ledger>>

----------------------------------------------------------------------------
\* POST /users/
\* User.model_validate(user) copies username, email, phone_number and the
\* body's balance (UserCreate inherits UserBase.balance); created_at and
\* updated_at are two successive readings of the clock. The commit raises
\* IntegrityError on a unique index, which the handler does not catch.
create_user(username, email, phone_number, balance) ==
    \E d \in {0, 1} :
        LET db_user == [id |-> Len(users) + 1,
                        username |-> username,
                        email |-> email,
                        phone_number |-> phone_number,
                        balance |-> IF balance = None THEN DefaultBalance ELSE balance[1],
                        created_at |-> now,
                        updated_at |-> now + d]
            args == [username |-> username, email |-> email,
                     phone_number |-> phone_number, balance |-> balance]
            inserted == Append(users, db_user)
        IN  /\ now + d <= MaxTime
            /\ now' = now + d
            /\ IF UniqueOK(inserted)
               THEN /\ Len(users) < MaxUsers
                    /\ users' = inserted
                    /\ ledger' = Append(ledger, [initial |-> db_user.balance, credited |-> 0])
                    /\ response' = [op |-> "create_user", args |-> args,
                                    status |-> 200, body |-> db_user]
               ELSE /\ UNCHANGED <<users, ledger>>
                    /\ response' = [op |-> "create_user", args |-> args,
                                    status |-> 500, body |-> [detail |-> "IntegrityError"]]
            /\ UNCHANGED <<transactions, sessions>>

----------------------------------------------------------------------------
\* Fault variant of read_users: a limit above the cap is clamped to it and
\* the request is served.
read_users_clamped(offset, limit) ==
    LET off == IF offset = None THEN DefaultOffset ELSE offset[1]
        lim == IF limit = None THEN DefaultLimit ELSE limit[1]
        args == [offset |-> offset, limit |-> limit]
    IN  /\ response' = [op |-> "read_users", args |-> args, status |-> 200,
                        body |-> SelectPage(users, off, Min(lim, LimitCap))]
        /\ UNCHANGED <<users, transactions, now, sessions, ledger>>

\* GET /users/
\* limit carries Query(le=100): a larger value fails request validation (422)
\* before the handler runs. Otherwise the page is what the store returns for
\* select(User).offset(offset).limit(limit).
read_users(offset, limit) ==
    LET off == IF offset = None THEN DefaultOffset ELSE offset[1]
        lim == IF limit = None THEN DefaultLimit ELSE limit[1]
        args == [offset |-> offset, limit |-> limit]
    IN  /\ response' = IF lim > LimitCap
                       THEN [op |-> "read_users", args |-> args,
                             status |-> 422, body |-> [detail |-> "less_than_equal"]]
                       ELSE [op |-> "read_users", args |-> args,
                             status |-> 200, body |-> SelectPage(users, off, lim)]
        /\ UNCHANGED <<users, transactions, now, sessions, ledger>>

\* GET /users/{user_id}
read_user(user_id) ==
    LET user == SelectUser(users, user_id)
        args == [user_id |-> user_id]
    IN  /\ response' = IF user = None
                       THEN [op |-> "read_user", args |-> args,
                             status |-> 404, body |-> [detail |-> "User not found"]]
                       ELSE [op |-> "read_user", args |-> args,
                             status |-> 200, body |-> user[1]]
        /\ UNCHANGED <<users, transactions, now, sessions, ledger>>

\* Fault variant of update_user: the handler also assigns phone_number.
update_user_phone(user_id, username, email, phone_number) ==
    LET db_user == SelectUser(users, user_id)
        args == [user_id |-> user_id, username |-> username, email |-> email,
                 phone_number |-> phone_number]
    IN  /\ IF email = None
           THEN /\ response' = [op |-> "update_user", args |-> args,
                                status |-> 422, body |-> [detail |-> "missing"]]
                /\ UNCHANGED users
           ELSE IF db_user = None
           THEN /\ response' = [op |-> "update_user", args |-> args,
                                status |-> 404, body |-> [detail |-> "User not found"]]
                /\ UNCHANGED users
           ELSE LET row == [db_user[1] EXCEPT
                                !.username = OrElse(username, @),
                                !.email = OrElse(email, @),
                                !.phone_number = OrElse(phone_number, @)]
                    updated == UpdateRow(users, row)
                IN  IF UniqueOK(updated)
                    THEN /\ users' = updated
                         /\ response' = [op |-> "update_user", args |-> args,
                                         status |-> 200, body |-> row]
                    ELSE /\ UNCHANGED users
                         /\ response' = [op |-> "update_user", args |-> args,
                                         status |-> 500, body |-> [detail |-> "IntegrityError"]]
        /\ UNCHANGED <<transactions, now, sessions, ledger>>

\* PUT /users/{user_id}
\* The body is a UserUpdate: username and phone_number are Optional, email is
\* inherited from UserBase as a required str, so a body without email fails
\* request validation (422) before the handler runs. The handler assigns
\* username and email only.
update_user(user_id, username, email, phone_number) ==
    LET db_user == SelectUser(users, user_id)
        args == [user_id |-> user_id, username |-> username, email |-> email,
                 phone_number |-> phone_number]
    IN  /\ IF email = None
           THEN /\ response' = [op |-> "update_user", args |-> args,
                                status |-> 422, body |-> [detail |-> "missing"]]
                /\ UNCHANGED users
           ELSE IF db_user = None
           THEN /\ response' = [op |-> "update_user", args |-> args,
                                status |-> 404, body |-> [detail |-> "User not found"]]
                /\ UNCHANGED users
           ELSE LET row == [db_user[1] EXCEPT
                                !.username = OrElse(username, @),
                                !.email = OrElse(email, @)]
                    updated == UpdateRow(users, row)
                IN  IF UniqueOK(updated)
                    THEN /\ users' = updated
                         /\ response' = [op |-> "update_user", args |-> args,
                                         status |-> 200, body |-> row]
                    ELSE /\ UNCHANGED users
                         /\ response' = [op |-> "update_user", args |-> args,
                                         status |-> 500, body |-> [detail |-> "IntegrityError"]]
        /\ UNCHANGED <<transactions, now, sessions, ledger>>

\* GET /wallet/{user_id}/balance
get_wallet_balance(user_id) ==
    LET user == SelectUser(users, user_id)
        args == [user_id |-> user_id]
    IN  /\ response' = IF user = None
                       THEN [op |-> "get_wallet_balance", args |-> args,
                             status |-> 404, body |-> [detail |-> "User not found"]]
                       ELSE [op |-> "get_wallet_balance", args |-> args,
                             status |-> 200,
                             body |-> [user_id |-> user[1].id,
                                       balance |-> user[1].balance,
                                       last_updated |-> user[1].updated_at]]
        /\ UNCHANGED <<users, transactions, now, sessions, ledger>>

----------------------------------------------------------------------------
\* POST /wallet/{user_id}/add-money

\* Fault variant of AddedBalance: `user.balance = amount`.
AddedBalance_Overwrite(user, amount) == amount

\* `user.balance += amount` on the object the session loaded.
AddedBalance(user, amount) == user.balance + amount

\* session.add(user); session.commit(): the UPDATE of the one changed column,
\* with the value computed in memory.
CommitBalance(tbl, uid, balance) ==
    [i \in DOMAIN tbl |-> IF tbl[i].id = uid
                          THEN [tbl[i] EXCEPT !.balance = balance]
                          ELSE tbl[i]]

\* The history of completed add-money requests (not program state).
Credit(l, uid, amount) ==
    [i \in DOMAIN l |-> IF i = uid
                        THEN [l[i] EXCEPT !.credited = @ + amount]
                        ELSE l[i]]

AddMoneyResponse(user_id, amount, status, body) ==
    [op |-> "add_money_to_wallet",
     args |-> [user_id |-> user_id, amount |-> amount],
     status |-> status, body |-> body]

AddMoneyBody(user, amount) ==
    [user_id |-> user.id, amount |-> amount, new_balance |-> user.balance,
     transaction_type |-> "CREDIT"]

InRange(b) == -MaxBalance <= b /\ b <= MaxBalance

\* Fault variant of add_money_to_wallet: the handler also inserts a CREDIT
\* row into table "transaction".
add_money_to_wallet_logged(user_id, amount) ==
    LET user == SelectUser(users, user_id)
    IN  /\ IF user = None
           THEN /\ response' = AddMoneyResponse(user_id, amount, 404, [detail |-> "User not found"])
                /\ UNCHANGED <<users, ledger, transactions>>
           ELSE LET committed == CommitBalance(users, user_id, AddedBalance(user[1], amount))
                    refreshed == SelectUser(committed, user_id)[1]
                IN  /\ InRange(AddedBalance(user[1], amount))
                    /\ users' = committed
                    /\ ledger' = Credit(ledger, user_id, amount)
                    /\ transactions' = Append(transactions,
                           [id |-> Len(transactions) + 1, user_id |-> user_id,
                            transaction_type |-> "CREDIT",
                            recipient_user_id |-> user_id, amount |-> amount])
                    /\ response' = AddMoneyResponse(user_id, amount, 200,
                                                    AddMoneyBody(refreshed, amount))
        /\ UNCHANGED <<now, sessions>>

\* The whole handler, run with no other request in between.
add_money_to_wallet(user_id, amount) ==
    LET user == SelectUser(users, user_id)
    IN  /\ IF user = None
           THEN /\ response' = AddMoneyResponse(user_id, amount, 404, [detail |-> "User not found"])
                /\ UNCHANGED <<users, ledger>>
           ELSE LET committed == CommitBalance(users, user_id, AddedBalance(user[1], amount))
                    refreshed == SelectUser(committed, user_id)[1]
                IN  /\ InRange(AddedBalance(user[1], amount))
                    /\ users' = committed
                    /\ ledger' = Credit(ledger, user_id, amount)
                    /\ response' = AddMoneyResponse(user_id, amount, 200,
                                                    AddMoneyBody(refreshed, amount))
        /\ UNCHANGED <<transactions, now, sessions>>

\* The same handler as the steps of one request's session, which other
\* requests' steps may interleave with (handlers run on a thread pool, each
\* with its own session; the SELECT holds no lock).
\* Step 1: the SELECT, the 404 check and the in-memory increment.
AddMoneySelect(s, user_id, amount) ==
    LET user == SelectUser(users, user_id)
    IN  /\ sessions[s].pc = "idle"
        /\ IF user = None
           THEN sessions' = [sessions EXCEPT ![s] =
                                [@ EXCEPT !.pc = "done", !.user_id = user_id,
                                          !.amount = amount, !.status = 404]]
           ELSE /\ InRange(AddedBalance(user[1], amount))
                /\ sessions' = [sessions EXCEPT ![s] =
                                   [@ EXCEPT !.pc = "loaded", !.user_id = user_id,
                                             !.amount = amount,
                                             !.balance = AddedBalance(user[1], amount)]]
        /\ UNCHANGED <<users, transactions, now, response, ledger>>

\* Step 2: session.add(user); session.commit().
AddMoneyCommit(s) ==
    /\ sessions[s].pc = "loaded"
    /\ users' = CommitBalance(users, sessions[s].user_id, sessions[s].balance)
    /\ ledger' = Credit(ledger, sessions[s].user_id, sessions[s].amount)
    /\ sessions' = [sessions EXCEPT ![s].pc = "committed"]
    /\ UNCHANGED <<transactions, now, response>>

\* Step 3: session.refresh(user) and the response.
AddMoneyRefresh(s) ==
    /\ sessions[s].pc = "committed"
    /\ sessions' = [sessions EXCEPT ![s] =
                       [@ EXCEPT !.pc = "done", !.status = 200,
                                 !.new_balance =
                                     SelectUser(users, sessions[s].user_id)[1].balance]]
    /\ UNCHANGED <<users, transactions, now, response, ledger>>

\* The response is sent and the request's session is closed.
Respond ==
    /\ ~Idle
    /\ response' = NoResponse
    /\ UNCHANGED <<users, transactions, now, sessions, ledger>>

----------------------------------------------------------------------------
\* Request inputs.
OptNames == {None, Some("")} \cup {Some(n) : n \in Names}
OptEmails == {None, Some("")} \cup {Some(e) : e \in Emails}
OptPhones == {None, Some("2")}
BodyBalances == {None, Some(1)}
Offsets == {None, Some(-1), Some(0), Some(1)}
Limits == {None, Some(-1), Some(0), Some(1), Some(LimitCap), Some(LimitCap + 1)}

CreateUser ==
    /\ Idle
    /\ \E u \in Names, e \in Emails, p \in Phones, b \in BodyBalances :
           create_user(u, e, p, b)

ReadUsers ==
    /\ Idle
    /\ \E o \in Offsets, l \in Limits : read_users(o, l)

ReadUser ==
    /\ Idle
    /\ \E id \in UserIds : read_user(id)

UpdateUser ==
    /\ Idle
    /\ \E id \in UserIds, u \in OptNames, e \in OptEmails, p \in OptPhones :
           update_user(id, u, e, p)

GetWalletBalance ==
    /\ Idle
    /\ \E id \in UserIds : get_wallet_balance(id)

AddMoney ==
    /\ Idle
    /\ \E id \in UserIds, a \in Amounts : add_money_to_wallet(id, a)

\* Requests served one at a time: each is answered before the next arrives.
Next ==
    \/ Tick
    \/ CreateUser
    \/ ReadUsers
    \/ ReadUser
    \/ UpdateUser
    \/ GetWalletBalance
    \/ AddMoney
    \/ Respond

Spec == Init /\ [][Next]_vars

\* MaxSessions concurrent add-money requests of amount 1, each in its own
\* session (get_session opens one per request), on the users created so far.
ConcAddMoneySelect == \E s \in Requests, id \in UserIds : AddMoneySelect(s, id, 1)

ConcAddMoneyCommit == \E s \in Requests : AddMoneyCommit(s)

ConcAddMoneyRefresh == \E s \in Requests : AddMoneyRefresh(s)

ConcNext ==
    \/ CreateUser
    \/ Respond
    \/ ConcAddMoneySelect
    \/ ConcAddMoneyCommit
    \/ ConcAddMoneyRefresh

ConcSpec == Init /\ [][ConcNext]_vars
----------------------------------------------------------------------------
\* Properties.

HasUser(tbl, uid) == SelectUser(tbl, uid) # None

Row(tbl, uid) == SelectUser(tbl, uid)[1]

\* This step serves a request `op`: it leaves a response to be sent.
Served(op) == Idle /\ response'.op = op

NoInFlight == \A s \in Requests : sessions[s].pc \in {"idle", "done"}

Completed(uid) ==
    Cardinality({s \in Requests : /\ sessions[s].pc = "done"
                                  /\ sessions[s].status = 200
                                  /\ sessions[s].user_id = uid})

\* C1: when N concurrent add-money requests of amount 1 on a user have all
\* completed, the user's balance is its balance before them plus N.
C1_ConcurrentAddsAllCount ==
    NoInFlight =>
        \A i \in DOMAIN users :
            users[i].balance = ledger[i].initial + Completed(users[i].id)

\* C2: served one at a time, add-money(user_id, amount) on an existing user
\* stores balance + amount for any sign of amount, returns it as new_balance,
\* leaves every other user as it was, and get-balance returns the stored
\* balance.
C2_AddMoneyAddsAmount ==
    [][/\ (Served("add_money_to_wallet") /\ HasUser(users, response'.args.user_id)) =>
            LET uid == response'.args.user_id
                amount == response'.args.amount
                old == Row(users, uid).balance
            IN  /\ response'.status = 200
                /\ response'.body.new_balance = old + amount
                /\ Len(users') = Len(users)
                /\ \A i \in DOMAIN users :
                       IF users[i].id = uid
                       THEN users'[i].balance = old + amount
                       ELSE users'[i] = users[i]
       /\ (Served("get_wallet_balance") /\ HasUser(users, response'.args.user_id)) =>
            /\ response'.status = 200
            /\ response'.body.balance = Row(users, response'.args.user_id).balance
            /\ users' = users
      ]_vars

\* A negative, a zero or a positive amount has been added to a stored balance.
C2_Witness ==
    /\ response.op = "add_money_to_wallet"
    /\ response.status = 200
    /\ response.args.amount = -1
    /\ response.body.new_balance = -1
    /\ Len(users) = 2
    /\ users[2].balance = -1
    /\ users[1].balance = 1

\* C3: after a successful add-money the user's updated_at (get-balance's
\* last_updated) is strictly later than its created_at and later than the
\* value it had before the add-money.
C3_AddMoneyAdvancesUpdatedAt ==
    [][(Served("add_money_to_wallet") /\ response'.status = 200) =>
            LET uid == response'.args.user_id
            IN  /\ Row(users', uid).updated_at > Row(users', uid).created_at
                /\ Row(users', uid).updated_at > Row(users, uid).updated_at
      ]_vars

\* No two stored users share a username, an email or a phone number.
NoSharedField ==
    \A i, j \in DOMAIN users :
        i # j => /\ users[i].username # users[j].username
                 /\ users[i].email # users[j].email
                 /\ users[i].phone_number # users[j].phone_number

\* C4: no two stored users ever share a username, an email or a phone
\* number; a create-user that repeats a stored username, email or
\* phone_number is answered with an error and stores nothing, and an
\* update-user that would give a user another user's username or email is
\* answered with an error and changes nothing.
C4_UniqueUsers ==
    /\ NoSharedField
    /\ [][/\ NoSharedField'
          /\ (/\ Served("create_user")
              /\ \E i \in DOMAIN users :
                     \/ users[i].username = response'.args.username
                     \/ users[i].email = response'.args.email
                     \/ users[i].phone_number = response'.args.phone_number) =>
                 (response'.status >= 400 /\ users' = users)
          /\ (/\ Served("update_user")
              /\ \E i \in DOMAIN users :
                     /\ users[i].id # response'.args.user_id
                     /\ HasUser(users, response'.args.user_id)
                     /\ \/ response'.args.username = Some(users[i].username)
                        \/ response'.args.email = Some(users[i].email)) =>
                 (response'.status >= 400 /\ users' = users)
         ]_vars

\* A create-user repeating only the phone number of a stored user was refused.
C4_Witness ==
    /\ response.op = "create_user"
    /\ response.status = 500
    /\ Len(users) = 1
    /\ users[1].phone_number = response.args.phone_number
    /\ users[1].username # response.args.username
    /\ users[1].email # response.args.email

IdOps == {"read_user", "update_user", "get_wallet_balance", "add_money_to_wallet"}

\* C5: for a user_id no stored user has, get-user, update-user, get-balance
\* and add-money each answer 404 and leave users and transactions as they were.
C5_MissingUserIs404 ==
    [][\A op \in IdOps :
           (Served(op) /\ ~HasUser(users, response'.args.user_id)) =>
               /\ response'.status = 404
               /\ users' = users
               /\ transactions' = transactions
      ]_vars

\* The supplied non-empty username and email of an update are free: no
\* other user holds them.
SuppliedFree(args) ==
    \A i \in DOMAIN users :
        users[i].id # args.user_id =>
            /\ Truthy(args.username) => users[i].username # args.username[1]
            /\ Truthy(args.email) => users[i].email # args.email[1]

\* C6: an update-user on an existing user that omits username, email or
\* phone_number (any combination) succeeds and leaves each omitted field's
\* stored value unchanged.
C6_OmittedFieldsKept ==
    [][(/\ Served("update_user")
        /\ HasUser(users, response'.args.user_id)
        /\ SuppliedFree(response'.args)
        /\ \/ response'.args.username = None
           \/ response'.args.email = None
           \/ response'.args.phone_number = None) =>
            LET args == response'.args
                old == Row(users, args.user_id)
                new == Row(users', args.user_id)
            IN  /\ response'.status = 200
                /\ args.username = None => new.username = old.username
                /\ args.email = None => new.email = old.email
                /\ args.phone_number = None => new.phone_number = old.phone_number
      ]_vars

\* The number of users past an offset (a negative offset counts as 0).
PastOffset(off) ==
    LET o == IF off < 0 THEN 0 ELSE off
    IN  IF Len(users) > o THEN Len(users) - o ELSE 0

RequestedLimit(args) == IF args.limit = None THEN 100 ELSE args.limit[1]

RequestedOffset(args) == IF args.offset = None THEN 0 ELSE args.offset[1]

\* C7 as stated: list-users serves every requested limit with a page of at
\* most 100 users, a limit above 100 being clamped to 100.
C7_LimitClamped ==
    [][Served("read_users") =>
            LET lim == RequestedLimit(response'.args)
                off == RequestedOffset(response'.args)
            IN  /\ response'.status = 200
                /\ Len(response'.body) <= 100
                /\ lim >= 100 => Len(response'.body) = Min(100, PastOffset(off))
      ]_vars

\* C7 amended: a limit above 100 is refused with 422 and no page is served;
\* a limit from 0 to 100 (100 by default) is served with the first
\* min(limit, users past the offset) users from the offset; a negative limit
\* is served with every user past the offset.
C7_LimitRejected ==
    [][Served("read_users") =>
            LET lim == RequestedLimit(response'.args)
                off == RequestedOffset(response'.args)
                o == IF off < 0 THEN 0 ELSE off
                n == IF lim > 100 THEN 0
                     ELSE IF lim < 0 THEN PastOffset(off)
                     ELSE Min(lim, PastOffset(off))
            IN  /\ users' = users
                /\ IF lim > 100
                   THEN response'.status = 422
                   ELSE /\ response'.status = 200
                        /\ Len(response'.body) = n
                        /\ \A k \in 1..n : response'.body[k] = users[o + k]
      ]_vars

\* A list-users request with limit 101 was refused while users are stored.
C7_Witness ==
    /\ response.op = "read_users"
    /\ response.args.limit = Some(101)
    /\ response.status = 422
    /\ Len(users) = 2

C9_BalanceIsSumOfCredits ==
    \A i \in DOMAIN users : users[i].balance = ledger[i].credited

\* C10 as stated: an update-user that supplies a non-empty phone_number no
\* other user holds stores it and returns it.
C10_PhoneStored ==
    [][(/\ Served("update_user")
        /\ HasUser(users, response'.args.user_id)
        /\ response'.args.email # None
        /\ SuppliedFree(response'.args)
        /\ Truthy(response'.args.phone_number)
        /\ \A i \in DOMAIN users :
               users[i].id # response'.args.user_id =>
                   users[i].phone_number # response'.args.phone_number[1]) =>
            /\ response'.status = 200
            /\ response'.body.phone_number = response'.args.phone_number[1]
            /\ Row(users', response'.args.user_id).phone_number =
                   response'.args.phone_number[1]
      ]_vars

\* C10 amended: a successful update-user leaves the stored phone_number as
\* it was, whether or not the request supplies one; it stores the supplied
\* non-empty username and email, keeps the others, returns the stored user,
\* and get-user returns the stored user.
C10_PhoneIgnored ==
    [][/\ (Served("update_user") /\ response'.status = 200) =>
            LET args == response'.args
                old == Row(users, args.user_id)
                new == Row(users', args.user_id)
            IN  /\ new.phone_number = old.phone_number
                /\ new.username = IF Truthy(args.username)
                                  THEN args.username[1] ELSE old.username
                /\ new.email = IF Truthy(args.email)
                               THEN args.email[1] ELSE old.email
                /\ response'.body = new
       /\ (Served("read_user") /\ HasUser(users, response'.args.user_id)) =>
            /\ response'.status = 200
            /\ response'.body = Row(users, response'.args.user_id)
      ]_vars

\* An update that supplied a free phone number, a new username and a new
\* email succeeded: the username and email are stored, the phone is not.
C10_Witness ==
    /\ response.op = "update_user"
    /\ response.status = 200
    /\ response.args.phone_number = Some("2")
    /\ response.args.username = Some("b")
    /\ response.args.email = Some("b@x")
    /\ Len(users) = 1
    /\ users[1].phone_number = "1"
    /\ users[1].username = "b"
    /\ users[1].email = "b@x"
    /\ response.body = users[1]
====
